---- MODULE Spec2Model ----
(***************************************************************************)
(* State-machine model of ggpa/mcts_bot.py: the Monte Carlo Tree Search    *)
(* agent (TreeNode and MCTSAgent.choose_card).                              *)
(*                                                                         *)
(* The battle state (get_actions, step, ended, score, health,              *)
(* copy_undeterministic) is an external collaborator.  It is modelled as   *)
(* a nondeterministic environment: a stochastic copy may present any       *)
(* legal-action set, and a step may lead to any successor, within the      *)
(* bounds below.  Every play-out ends within MaxDepth steps.               *)
(*                                                                         *)
(* Rewards are kept in half points (score() * (0.5 + 0.5 * health()) is a  *)
(* multiple of 0.5 when score() is an integer and health() is 0 or 1), so  *)
(* total_reward here is twice the float total_reward of the code.          *)
(***************************************************************************)
EXTENDS Integers, Sequences, FiniteSets, TLC

\* ---- bounds -------------------------------------------------------------
NumKeys == 3          \* distinct action keys the game can offer
MaxIterations == 3    \* largest iteration budget explored
MaxDepth == 2         \* every play-out ends within this many steps
UcbMaxParent == 3     \* largest parent_visits given to ucb_score on its own
UcbMaxVisits == 2     \* largest visits of a node given to ucb_score on its own
UcbMaxReward == 2     \* largest total_reward (half points) of such a node
LiveIterations == 2   \* largest iteration budget explored for termination

Keys == 1..NumKeys

VARIABLES
    iterations,   \* MCTSAgent.iterations
    states,       \* battle states by identity: the real state and the iteration's state_copy
    nodes,        \* the tree: sequence of TreeNode, root at index 1; <<>> before creation
    pc,           \* control point of choose_card
    i,            \* completed iterations of the for loop
    cur,          \* the TreeNode whose select / rollout is running
    result,       \* outcome of choose_card
    lastStep,     \* the most recent state.step call
    rollouts,     \* number of rollout invocations
    backprops,    \* number of backpropagate invocations started by select / rollout
    clones,       \* number of copy_undeterministic calls
    rootLeaf,     \* iterations that ended at the root itself as a leaf
    rootSeen      \* legal-action sets the working copies presented at the root:
                  \* {} before the first, {S} while all presented S, else SUBSET Keys

vars == <<iterations, states, nodes, pc, i, cur, result, lastStep,
          rollouts, backprops, clones, rootLeaf, rootSeen>>

\* ---- identities of battle states ------------------------------------------
RealId == 0                    \* battle_state handed to choose_card
SampleId(it) == 2 * it - 1     \* sample_state of iteration it (choose_card)
CopyId(it) == 2 * it           \* state_copy of iteration it (TreeNode.step)

\* ---- the state abstraction (external collaborator) -------------------------
\* A battle state: depth = steps applied so far, acts = keys of the legal
\* actions, ended = ended(), pts = score(), hp = health().
\* The real state offers the first n keys, n = 0..NumKeys (keys are
\* interchangeable, so this covers every legal-action set up to renaming).
RealStates ==
    [depth : {0}, acts : {1..n : n \in 0..NumKeys}, ended : {FALSE}, pts : {0}, hp : {1}]

\* get_actions(): the action objects a state hands out; the object remembers
\* the state that produced it.
get_actions(sid, s) == {[key |-> k, origin |-> sid] : k \in s.acts}

\* copy_undeterministic(): an independent copy whose stochastic elements are
\* re-sampled, so the legal-action set it presents may differ.
copy_undeterministic(s) ==
    {[s EXCEPT !.acts = A] : A \in SUBSET Keys}

\* step(action): any successor one step deeper, which may score a point; at
\* MaxDepth the game is over and no action remains.
StepState(s) ==
    IF s.depth + 1 >= MaxDepth
    THEN {[depth |-> s.depth + 1, acts |-> {}, ended |-> TRUE, pts |-> p, hp |-> s.hp] :
            p \in {s.pts, s.pts + 1}}
    ELSE {[depth |-> s.depth + 1, acts |-> A, ended |-> e, pts |-> p, hp |-> s.hp] :
            A \in SUBSET Keys, e \in BOOLEAN, p \in {s.pts, s.pts + 1}}

\* ---- TreeNode ----------------------------------------------------------------
NoAction == [key |-> 0, origin |-> 0 - 1]     \* action=None
NoNode == 0                                   \* parent=None
Root == 1

\* variant: the new node is not told its parent
TreeNode_NoParent(parent, action) ==
    [parent |-> NoNode, action |-> action, visits |-> 0, total_reward |-> 0,
     children |-> <<>>]

\* variant: the new node is not told its action
TreeNode_NoAction(parent, action) ==
    [parent |-> parent, action |-> NoAction, visits |-> 0, total_reward |-> 0,
     children |-> <<>>]

\* variant: a new node starts out as already visited once
TreeNode_Visited(parent, action) ==
    [parent |-> parent, action |-> action, visits |-> 1, total_reward |-> 0,
     children |-> <<>>]

\* TreeNode.__init__
TreeNode(parent, action) ==
    [parent |-> parent, action |-> action, visits |-> 0, total_reward |-> 0,
     children |-> <<>>]

\* keys of self.children
ChildKeys(n) == {n.children[j].key : j \in 1..Len(n.children)}

\* TreeNode.score, in half points
score(s) == s.pts * (1 + s.hp)

\* variant: the parent is not called
backpropagate_no_parent(ns, n, r) ==
    [ns EXCEPT ![n].visits = @ + 1, ![n].total_reward = @ + r]

RECURSIVE backpropagate(_, _, _)
backpropagate(ns, n, r) ==
    LET ns1 == [ns EXCEPT ![n].visits = @ + 1, ![n].total_reward = @ + r]
    IN IF ns[n].parent # NoNode THEN backpropagate(ns1, ns[n].parent, r) ELSE ns1

\* average_score as a fraction <<numerator, denominator>> of half points
average_score(n) ==
    IF n.visits = 0 THEN <<0, 1>> ELSE <<n.total_reward, n.visits>>

FracLess(a, b) == a[1] * b[2] < b[1] * a[2]

\* ---- UCB-1, in thousandths ----------------------------------------------
ParamMilli == 500                \* param, the -p option (default 0.5)
Infinity == 1000000000           \* float('inf')

\* round(1000 * math.log(p)) for p = 1..10
LnTable == <<0, 693, 1099, 1386, 1609, 1792, 1946, 2079, 2197, 2303>>
LnMilli(p) == LnTable[p]

RECURSIVE ISqrtIn(_, _, _)
ISqrtIn(x, lo, hi) ==
    IF lo >= hi THEN lo
    ELSE LET mid == (lo + hi + 1) \div 2
         IN IF mid * mid <= x THEN ISqrtIn(x, mid, hi) ELSE ISqrtIn(x, lo, mid - 1)
\* floor of the square root
ISqrt(x) == ISqrtIn(x, 0, 2000)

\* math.log raises for parent_visits = 0
ucb_defined(n, parent_visits) == n.visits = 0 \/ parent_visits >= 1

\* variant: an unvisited node gets its average score, 0, instead of infinity
ucb_score_NoInf(n, parent_visits) ==
    IF n.visits = 0 THEN 0
    ELSE (500 * n.total_reward) \div n.visits
         + (ParamMilli * ISqrt((1000 * LnMilli(parent_visits)) \div n.visits)) \div 1000

ucb_score(n, parent_visits) ==
    IF n.visits = 0 THEN Infinity
    ELSE (500 * n.total_reward) \div n.visits
         + (ParamMilli * ISqrt((1000 * LnMilli(parent_visits)) \div n.visits)) \div 1000

\* ---- choose_card -----------------------------------------------------------
\* to_action(battle_state): the committable form of an action object
to_action(a) == [kind |-> "action", key |-> a.key, origin |-> a.origin]
Raised == [kind |-> "raise", key |-> 0, origin |-> 0 - 1]
NoResult == [kind |-> "none", key |-> 0, origin |-> 0 - 1]
NoStep == [it |-> 0, target |-> 0 - 1, origin |-> 0 - 1, legal |-> TRUE, ended |-> FALSE]

Init ==
    /\ iterations \in 0..MaxIterations
    /\ \E s \in RealStates : states = (RealId :> s)
    /\ nodes = <<>>
    /\ pc = "entry"
    /\ i = 0
    /\ cur = NoNode
    /\ result = NoResult
    /\ lastStep = NoStep
    /\ rollouts = 0
    /\ backprops = 0
    /\ clones = 0
    /\ rootLeaf = 0
    /\ rootSeen = {}

\* choose_card, lines 150-152: the single-action shortcut
FastPath ==
    /\ pc = "entry"
    /\ LET actions == get_actions(RealId, states[RealId])
       IN /\ Cardinality(actions) = 1
          /\ result' = to_action(CHOOSE a \in actions : TRUE)
    /\ pc' = "done"
    /\ UNCHANGED <<iterations, states, nodes, i, cur, lastStep, rollouts,
                   backprops, clones, rootLeaf, rootSeen>>

\* variant: the single-action test is missing and the search always runs
CreateTree_NoShortcut ==
    /\ pc = "entry"
    /\ nodes' = <<TreeNode(NoNode, NoAction)>>
    /\ pc' = "loop"
    /\ UNCHANGED <<iterations, states, i, cur, result, lastStep, rollouts,
                   backprops, clones, rootLeaf, rootSeen>>

\* choose_card, line 154: t = TreeNode(self.param)
CreateTree ==
    /\ pc = "entry"
    /\ Cardinality(get_actions(RealId, states[RealId])) # 1
    /\ nodes' = <<TreeNode(NoNode, NoAction)>>
    /\ pc' = "loop"
    /\ UNCHANGED <<iterations, states, i, cur, result, lastStep, rollouts,
                   backprops, clones, rootLeaf, rootSeen>>

\* variant: select works on the state it was handed, not on a copy
WorkId_Real(it) == RealId

\* the state the iteration's select works on: state_copy
WorkId(it) == CopyId(it)

\* choose_card line 158 and TreeNode.step lines 32-34: clone twice, start select.
\* sample_state is read only by the second copy, so its content is not kept.
step ==
    /\ pc = "loop"
    /\ i < iterations
    /\ \E s1 \in copy_undeterministic(states[RealId]) :
       \E s2 \in copy_undeterministic(s1) :
          /\ states' = (RealId :> states[RealId]) @@ (CopyId(i + 1) :> s2)
          /\ rootSeen' = IF rootSeen \in {{}, {s2.acts}} THEN {s2.acts}
                          ELSE SUBSET Keys
    /\ clones' = clones + 2
    /\ cur' = Root
    /\ pc' = "select"
    /\ UNCHANGED <<iterations, nodes, i, result, lastStep, rollouts, backprops, rootLeaf>>

\* end of an iteration: the working copies go out of scope
EndIteration ==
    /\ i' = i + 1
    /\ pc' = "loop"
    /\ cur' = NoNode
    /\ states' = (RealId :> states[RealId])
    /\ lastStep' = NoStep

\* state.step(a) on the state with identity sid
ApplyStep(sid, a, s2) ==
    /\ states' = [states EXCEPT ![sid] = s2]
    /\ lastStep' = [it |-> i + 1, target |-> sid, origin |-> a.origin,
                    legal |-> a.key \in states[sid].acts,
                    ended |-> states[sid].ended]

\* the state_copy select is working on, and what it sees there
Work == states[WorkId(i + 1)]
Actions == get_actions(WorkId(i + 1), Work)
\* variant: every legal action counts as unexplored
Unexplored_All == Actions

\* line 68: unexplored = [a for a in actions if a.key() not in self.children]
Unexplored == {a \in Actions : a.key \notin ChildKeys(nodes[cur])}

\* variant: the dict is replaced by one holding only the new entry
PutChild_Reset(children, entry) == <<entry>>

\* self.children[key] = (action, child): dict assignment keeps the position of
\* an existing key and appends a new one
PutChild(children, entry) ==
    IF \E j \in 1..Len(children) : children[j].key = entry.key
    THEN [j \in 1..Len(children) |->
            IF children[j].key = entry.key THEN entry ELSE children[j]]
    ELSE Append(children, entry)

\* select, lines 62-65 and 82-85: evaluate and backpropagate without descending
select_leaf ==
    /\ pc = "select"
    /\ \/ Actions = {}
       \/ (Unexplored = {} /\ nodes[cur].children = <<>>)
    /\ nodes' = backpropagate(nodes, cur, score(Work))
    /\ backprops' = backprops + 1
    /\ rootLeaf' = rootLeaf + (IF cur = Root THEN 1 ELSE 0)
    /\ EndIteration
    /\ UNCHANGED <<iterations, result, rollouts, clones, rootSeen>>

\* select lines 68-70 and expand lines 102-108
expand ==
    /\ pc = "select"
    /\ Actions # {}
    /\ Unexplored # {}
    /\ \E action \in Unexplored : \E s2 \in StepState(Work) :
         LET child == Len(nodes) + 1
             entry == [key |-> action.key, action |-> action, child |-> child]
         IN /\ nodes' = Append([nodes EXCEPT ![cur].children = PutChild(@, entry)],
                               TreeNode(cur, action))
            /\ ApplyStep(WorkId(i + 1), action, s2)
            /\ cur' = child
    /\ rollouts' = rollouts + 1
    /\ pc' = "rollout"
    /\ UNCHANGED <<iterations, i, result, backprops, clones, rootLeaf, rootSeen>>

\* variant: children are kept when their stored action object, not its key,
\* is among the current actions
Candidates_SameObject(n, actions) ==
    LET valid(e) == e.action \in actions
    IN SelectSeq(n.children, valid)

\* line 76: the children whose key is in valid_actions, in dict order
Candidates(n, actions) ==
    LET valid(e) == \E a \in actions : a.key = e.key
    IN SelectSeq(n.children, valid)

\* variant: the first candidate is taken, whatever its score
BestUCB_First(ns, n, cands) == cands[1]

\* lines 75-78: max(..., key=ucb_score) returns the first maximal candidate
BestUCB(ns, n, cands) ==
    LET u(j) == ucb_score(ns[cands[j].child], n.visits)
    IN cands[CHOOSE j \in 1..Len(cands) :
                /\ \A k \in 1..Len(cands) : u(k) <= u(j)
                /\ \A k \in 1..(j - 1) : u(k) < u(j)]

\* variant: the action object stored in the tree is applied
SelectStepAction_Stored(entry, actions) == entry.action

\* line 80: valid_actions[best_action.key()], the current state's action object
SelectStepAction(entry, actions) == CHOOSE a \in actions : a.key = entry.key

\* select, lines 71-81: descend into the best explored child
select_descend ==
    /\ pc = "select"
    /\ Actions # {}
    /\ Unexplored = {}
    /\ nodes[cur].children # <<>>
    /\ LET n == nodes[cur]
           cands == Candidates(n, Actions)
       IN IF \/ cands = <<>>
             \/ \E j \in 1..Len(cands) : ~ucb_defined(nodes[cands[j].child], n.visits)
          THEN \* max() of an empty sequence, or math.log(0), raises
               /\ result' = Raised
               /\ pc' = "done"
               /\ UNCHANGED <<states, lastStep, cur>>
          ELSE LET best == BestUCB(nodes, n, cands)
               IN /\ \E s2 \in StepState(Work) :
                        ApplyStep(WorkId(i + 1), SelectStepAction(best, Actions), s2)
                  /\ cur' = best.child
                  /\ pc' = "select"
                  /\ UNCHANGED result
    /\ UNCHANGED <<iterations, nodes, i, rollouts, backprops, clones, rootLeaf, rootSeen>>

\* variant: the loop body does not apply the action
rollout_step_NoStep ==
    /\ pc = "rollout"
    /\ ~Work.ended
    /\ Actions # {}
    /\ UNCHANGED vars

\* rollout, lines 113-118: one pass of the while loop
rollout_step ==
    /\ pc = "rollout"
    /\ ~Work.ended
    /\ Actions # {}
    /\ \E action \in Actions : \E s2 \in StepState(Work) :
          ApplyStep(WorkId(i + 1), action, s2)
    /\ UNCHANGED <<iterations, nodes, pc, i, cur, result, rollouts, backprops,
                   clones, rootLeaf, rootSeen>>

\* variant: the result is backpropagated from the parent of the new node
rollout_end_FromParent ==
    /\ pc = "rollout"
    /\ (Work.ended \/ Actions = {})
    /\ nodes' = backpropagate(nodes, nodes[cur].parent, score(Work))
    /\ backprops' = backprops + 1
    /\ EndIteration
    /\ UNCHANGED <<iterations, result, rollouts, clones, rootLeaf, rootSeen>>

\* rollout, lines 113-116 and 119-120: the loop ends, score and backpropagate
rollout_end ==
    /\ pc = "rollout"
    /\ (Work.ended \/ Actions = {})
    /\ nodes' = backpropagate(nodes, cur, score(Work))
    /\ backprops' = backprops + 1
    /\ EndIteration
    /\ UNCHANGED <<iterations, result, rollouts, clones, rootLeaf, rootSeen>>

\* variant: the best child is the one with the largest total reward
BestAverage_Total(ns, children) ==
    children[CHOOSE j \in 1..Len(children) :
                /\ \A k \in 1..Len(children) :
                      ns[children[k].child].total_reward <= ns[children[j].child].total_reward
                /\ \A k \in 1..(j - 1) :
                      ns[children[k].child].total_reward < ns[children[j].child].total_reward]

\* line 42: max(self.children.values(), key=average_score) returns the first
\* maximal entry in dict order
BestAverage(ns, children) ==
    LET av(j) == average_score(ns[children[j].child])
    IN children[CHOOSE j \in 1..Len(children) :
                   /\ \A k \in 1..Len(children) : ~FracLess(av(j), av(k))
                   /\ \A k \in 1..(j - 1) : FracLess(av(k), av(j))]

\* variant: no fallback for a root without children, max() of nothing raises
get_best_NoFallback(ns, actions) ==
    IF ns[Root].children = <<>>
    THEN {[ok |-> FALSE, action |-> NoAction]}
    ELSE {[ok |-> TRUE,
           action |-> ns[Root].children[CHOOSE j \in 1..Len(ns[Root].children) :
              /\ \A k \in 1..Len(ns[Root].children) :
                    ~FracLess(average_score(ns[ns[Root].children[j].child]),
                              average_score(ns[ns[Root].children[k].child]))
              /\ \A k \in 1..(j - 1) :
                    FracLess(average_score(ns[ns[Root].children[k].child]),
                             average_score(ns[ns[Root].children[j].child]))].action]}

\* get_best, lines 39-42: the possible outcomes; random.choice of an empty
\* list raises IndexError
get_best(ns, actions) ==
    IF ns[Root].children = <<>>
    THEN IF actions = {} THEN {[ok |-> FALSE, action |-> NoAction]}
         ELSE {[ok |-> TRUE, action |-> a] : a \in actions}
    ELSE {[ok |-> TRUE, action |-> BestAverage(ns, ns[Root].children).action]}

\* choose_card, lines 161-168 (get_best never returns None, so the warning
\* branch of line 165 is not taken)
choose_card_return ==
    /\ pc = "loop"
    /\ i >= iterations
    /\ \E o \in get_best(nodes, get_actions(RealId, states[RealId])) :
          result' = IF o.ok THEN to_action(o.action) ELSE Raised
    /\ pc' = "done"
    /\ UNCHANGED <<iterations, states, nodes, i, cur, lastStep, rollouts,
                   backprops, clones, rootLeaf, rootSeen>>

Next ==
    \/ FastPath
    \/ CreateTree
    \/ step
    \/ select_leaf
    \/ expand
    \/ select_descend
    \/ rollout_step
    \/ rollout_end
    \/ choose_card_return

Spec == Init /\ [][Next]_vars

\* the interpreter keeps running choose_card until it returns; termination is
\* explored for budgets up to LiveIterations
LiveInit == Init /\ iterations <= LiveIterations
FairSpec == LiveInit /\ [][Next]_vars /\ WF_vars(Next)

\* ---- ucb_score and the UCB maximisation on their own ---------------------------
\* A parent with two children whose statistics are drawn freely, both keys
\* legal; lines 75-78 are then applied once.
UcbStats ==
    {st \in [visits : 0..UcbMaxVisits, total_reward : 0..UcbMaxReward] :
        st.visits = 0 => st.total_reward = 0}

UcbInit ==
    /\ iterations = 0
    /\ states = (RealId :> [depth |-> 0, acts |-> {1, 2}, ended |-> FALSE,
                            pts |-> 0, hp |-> 1])
    /\ \E p \in 1..UcbMaxParent : \E c1 \in UcbStats : \E c2 \in UcbStats :
          LET a1 == [key |-> 1, origin |-> RealId]
              a2 == [key |-> 2, origin |-> RealId]
          IN nodes = <<[TreeNode(NoNode, NoAction) EXCEPT
                           !.visits = p,
                           !.children = <<[key |-> 1, action |-> a1, child |-> 2],
                                          [key |-> 2, action |-> a2, child |-> 3]>>],
                       [TreeNode(Root, a1) EXCEPT
                           !.visits = c1.visits, !.total_reward = c1.total_reward],
                       [TreeNode(Root, a2) EXCEPT
                           !.visits = c2.visits, !.total_reward = c2.total_reward]>>
    /\ pc = "ucb"
    /\ i = 0
    /\ cur = Root
    /\ result = NoResult
    /\ lastStep = NoStep
    /\ rollouts = 0
    /\ backprops = 0
    /\ clones = 0
    /\ rootLeaf = 0
    /\ rootSeen = {}

\* select, lines 73-78, at the parent: the child max() ranks first
ucb_pick ==
    /\ pc = "ucb"
    /\ LET n == nodes[cur]
           cands == Candidates(n, get_actions(RealId, states[RealId]))
       IN cur' = BestUCB(nodes, n, cands).child
    /\ pc' = "ucb_done"
    /\ UNCHANGED <<iterations, states, nodes, i, result, lastStep, rollouts,
                   backprops, clones, rootLeaf, rootSeen>>

UcbNext == ucb_pick

UcbSpec == UcbInit /\ [][UcbNext]_vars

TypeOK ==
    /\ iterations \in 0..MaxIterations
    /\ pc \in {"entry", "loop", "select", "rollout", "done"}
    /\ i \in 0..iterations
    /\ Len(nodes) <= MaxIterations + 1

\* ---- properties -------------------------------------------------------------
RealActs == states[RealId].acts
HasTree == nodes # <<>>
RootChildren == nodes[Root].children
Returned == pc = "done"
AfterIterations == pc \in {"loop", "done"}

RECURSIVE SumVisits(_, _)
SumVisits(ns, children) ==
    IF children = <<>> THEN 0
    ELSE ns[Head(children).child].visits + SumVisits(ns, Tail(children))

RECURSIVE PathToRoot(_, _)
PathToRoot(ns, n) ==
    IF n = NoNode THEN {} ELSE {n} \cup PathToRoot(ns, ns[n].parent)

\* C1: with at least two legal actions in the real state and a root that has
\* children after the iterations, the returned action's key is legal in the
\* real state.
C1_ReturnedKeyLegalInRealState ==
    (Returned /\ Cardinality(RealActs) >= 2 /\ HasTree /\ RootChildren # <<>>)
        => (result.kind = "action" /\ result.key \in RealActs)

\* C2: choose_card never ends in a thrown failure, also when the real state
\* and every clone report no legal action.
C2_NeverRaises ==
    Returned => result.kind # "raise"

\* C3: with exactly one legal action choose_card returns that action and
\* creates no tree, clones nothing, and runs no rollout and no backpropagation.
C3_SingleActionShortcut ==
    Cardinality(RealActs) = 1 =>
        /\ nodes = <<>> /\ clones = 0 /\ rollouts = 0 /\ backprops = 0
        /\ Returned => /\ result.kind = "action"
                       /\ result.origin = RealId
                       /\ RealActs = {result.key}

C3_Witness ==
    Returned /\ Cardinality(RealActs) = 1 /\ iterations >= 1 /\ result.kind = "action"

\* C4: the real state never changes, and every state.step call of an
\* iteration is applied to that iteration's own state_copy, never to the real
\* state or to a copy made for another iteration.
C4_RealStateUntouched ==
    [][/\ states'[RealId] = states[RealId]
       /\ (lastStep' # lastStep /\ lastStep' # NoStep) =>
             /\ lastStep'.it = i + 1
             /\ lastStep'.target = CopyId(i + 1)
             /\ lastStep'.target # RealId
             /\ \A j \in 1..MaxIterations :
                   /\ lastStep'.target # SampleId(j)
                   /\ j # i + 1 => lastStep'.target # CopyId(j)]_vars

C4_Witness ==
    /\ i >= 1
    /\ lastStep.it = i + 1
    /\ lastStep.target = CopyId(i + 1)
    /\ states[CopyId(i + 1)].depth >= 1

\* C5: after any number of completed iterations the visits of the root's
\* direct children sum to the completed iterations minus those that ended at
\* the root itself as a leaf.
C5_VisitConservation ==
    (AfterIterations /\ HasTree) =>
        SumVisits(nodes, RootChildren) = i - rootLeaf

C5_Witness ==
    /\ Returned /\ HasTree
    /\ i = iterations
    /\ rootLeaf >= 1
    /\ SumVisits(nodes, RootChildren) >= 2

\* C6: a backpropagation started at a node adds one visit and the same result
\* to that node and each of its ancestors up to the root, and changes the
\* statistics of no other node.
C6_Backpropagation ==
    [][backprops' = backprops + 1 =>
         LET r == score(Work)
             path == PathToRoot(nodes, cur)
         IN /\ Root \in path
            /\ Len(nodes') = Len(nodes)
            /\ \A k \in 1..Len(nodes) :
                  IF k \in path
                  THEN /\ nodes'[k].visits = nodes[k].visits + 1
                       /\ nodes'[k].total_reward = nodes[k].total_reward + r
                  ELSE /\ nodes'[k].visits = nodes[k].visits
                       /\ nodes'[k].total_reward = nodes[k].total_reward]_vars

C6_Witness ==
    /\ pc = "loop"
    /\ \E k \in 1..Len(nodes) :
          /\ nodes[k].parent \notin {NoNode, Root}
          /\ nodes[k].visits = 1
          /\ nodes[k].total_reward > 0
          /\ nodes[nodes[k].parent].total_reward > nodes[k].total_reward
    /\ \E k \in 1..Len(nodes) : nodes[k].visits = 1 /\ nodes[k].total_reward = 0

\* C7: while every clone presents the same set S of root actions, each
\* completed iteration up to the Cardinality(S)-th has expanded a distinct
\* action of S, so after Cardinality(S) iterations every action of S has a
\* child under the root.
C7_MonotonicExploration ==
    \A S \in SUBSET Keys :
        (rootSeen = {S} /\ AfterIterations /\ HasTree) =>
            /\ ChildKeys(nodes[Root]) \subseteq S
            /\ Len(RootChildren) = (IF i <= Cardinality(S) THEN i ELSE Cardinality(S))
            /\ Cardinality(ChildKeys(nodes[Root])) = Len(RootChildren)
            /\ i >= Cardinality(S) => ChildKeys(nodes[Root]) = S

C7_Witness ==
    /\ AfterIterations /\ HasTree
    /\ \E S \in SUBSET Keys :
          /\ rootSeen = {S}
          /\ Cardinality(S) >= 2
          /\ i = Cardinality(S)
          /\ ChildKeys(nodes[Root]) = S

\* C8: when no root child exists at the end and the real state has a legal
\* action, the returned action is one of the real state's own actions (the
\* only one when there is exactly one).
C8_FallbackFromRealState ==
    (Returned /\ RealActs # {} /\ (HasTree => RootChildren = <<>>)) =>
        /\ result.kind = "action"
        /\ result.key \in RealActs
        /\ result.origin = RealId

C8_Witness ==
    /\ Returned /\ HasTree /\ RootChildren = <<>>
    /\ Cardinality(RealActs) >= 2
    /\ i >= 1
    /\ result.kind = "action"

\* C9: when the root has children, the returned action is the stored action
\* of a root child whose average score is at least that of every root child.
C9_BestAverageReturned ==
    (Returned /\ HasTree /\ RootChildren # <<>>) =>
        /\ result.kind = "action"
        /\ \E j \in 1..Len(RootChildren) :
              /\ to_action(RootChildren[j].action) = result
              /\ \A k \in 1..Len(RootChildren) :
                    ~FracLess(average_score(nodes[RootChildren[j].child]),
                              average_score(nodes[RootChildren[k].child]))

C9_Witness ==
    /\ Returned /\ HasTree /\ Len(RootChildren) >= 2
    /\ result.kind = "action"
    /\ \E j, k \in 1..Len(RootChildren) :
          /\ j < k
          /\ to_action(RootChildren[k].action) = result
          /\ FracLess(average_score(nodes[RootChildren[j].child]),
                      average_score(nodes[RootChildren[k].child]))
          /\ nodes[RootChildren[j].child].total_reward
                >= nodes[RootChildren[k].child].total_reward

\* C10: with at least two legal actions, choose_card eventually returns an
\* action, having run exactly `iterations` iterations, each with its two
\* clones and one backpropagation.
C10_Terminates ==
    (Cardinality(RealActs) >= 2) ~>
        (Returned /\ result.kind = "action" /\ i = iterations
                  /\ clones = 2 * iterations /\ backprops = iterations)

C10_Witness ==
    /\ Returned /\ Cardinality(RealActs) >= 2
    /\ i = iterations /\ iterations = LiveIterations
    /\ rollouts >= 1 /\ backprops = iterations

\* C11: ucb_score is +infinity for an unvisited node, which the maximisation
\* then ranks above every visited sibling; for a visited node it is
\* total_reward/visits + param * sqrt(ln(parent_visits)/visits), here in
\* thousandths with the square root rounded down (LnTable is a logarithm:
\* it is 0 at 1 and additive on products up to rounding).
C11_UcbScore ==
    /\ \A k \in 2..Len(nodes) :
          LET n == nodes[k]
              p == nodes[Root].visits
              x == (1000 * LnMilli(p)) \div n.visits
          IN IF n.visits = 0
             THEN ucb_score(n, p) = Infinity
             ELSE /\ ucb_score(n, p) < Infinity
                  /\ \E r \in 0..2000 :
                        /\ r * r <= x
                        /\ x < (r + 1) * (r + 1)
                        /\ ucb_score(n, p) = (500 * n.total_reward) \div n.visits
                                               + (ParamMilli * r) \div 1000
    /\ pc = "ucb_done" =>
          ((\E k \in 2..Len(nodes) : nodes[k].visits = 0) => nodes[cur].visits = 0)
    /\ LnMilli(1) = 0
    /\ \A a, b \in 1..Len(LnTable) :
          a * b <= Len(LnTable) =>
             /\ LnMilli(a * b) - LnMilli(a) - LnMilli(b) <= 1
             /\ LnMilli(a) + LnMilli(b) - LnMilli(a * b) <= 1

C11_Witness ==
    /\ pc = "ucb_done"
    /\ cur = 3
    /\ nodes[3].visits = 0
    /\ nodes[2].visits >= 1
    /\ nodes[2].total_reward >= 2
    /\ nodes[Root].visits >= 2

\* C12: every iteration ends with exactly one evaluation and backpropagation
\* and never fails inside select, whatever action sets the copy presents; so
\* the root's visits equal the number of completed iterations, and
\* choose_card does not stop before all iterations are done.
C12_OneBackpropagationPerIteration ==
    HasTree =>
        /\ nodes[Root].visits = i
        /\ backprops = i
        /\ Returned => i = iterations

C12_Witness ==
    /\ Returned /\ HasTree
    /\ i = iterations /\ i >= 3
    /\ nodes[Root].visits = i
    /\ rootLeaf >= 1
    /\ rootSeen = SUBSET Keys
    /\ Len(RootChildren) >= 2

\* a node is in the tree: it is the root or an entry of its parent's children
Attached(ns, k) ==
    \/ k = Root
    \/ /\ ns[k].parent # NoNode
       /\ \E j \in 1..Len(ns[ns[k].parent].children) :
             ns[ns[k].parent].children[j].child = k

\* C13: an iteration adds exactly one node when select reaches a node with an
\* unexplored legal action and none when it reaches a node without legal
\* actions; nothing else adds a node and no node ever leaves the tree, so
\* after k iterations the tree has at most k + 1 nodes.
C13_OneNodePerIteration ==
    /\ [](HasTree =>
            /\ \A k \in 1..Len(nodes) : Attached(nodes, k)
            /\ Len(nodes) = 1 + rollouts
            /\ rollouts <= i + 1
            /\ AfterIterations => Len(nodes) <= i + 1)
    /\ [][HasTree =>
            /\ (pc = "select" /\ Actions # {} /\ Unexplored # {}) =>
                  (Len(nodes') = Len(nodes) + 1 /\ pc' = "rollout")
            /\ (pc = "select" /\ Actions = {}) =>
                  (Len(nodes') = Len(nodes) /\ pc' = "loop")
            /\ ~(pc = "select" /\ Actions # {} /\ Unexplored # {}) =>
                  Len(nodes') = Len(nodes)
            /\ pc = "rollout" => pc' \in {"rollout", "loop"}]_vars

C13_Witness ==
    /\ Returned /\ HasTree
    /\ i = 3
    /\ Len(nodes) = 3
    /\ rootLeaf = 0

\* C14: every entry of every node's children is keyed by its action's key and
\* holds a child whose action is that action and whose parent is that node;
\* keys are not repeated; every node other than the root sits in its parent's
\* children, and parents were created before their children, so the parent
\* chain ends at the root.  An entry appears only when expand picks an
\* unexplored legal action of that key at that node, and existing entries are
\* never replaced or removed.
C14_TreeWellFormed ==
    /\ [](HasTree =>
            \A n \in 1..Len(nodes) :
               /\ \A j \in 1..Len(nodes[n].children) :
                     LET e == nodes[n].children[j]
                     IN /\ e.key = e.action.key
                        /\ e.child \in 1..Len(nodes)
                        /\ nodes[e.child].action = e.action
                        /\ nodes[e.child].parent = n
                        /\ \A k \in 1..Len(nodes[n].children) :
                              k # j => nodes[n].children[k].key # e.key
               /\ IF n = Root
                  THEN nodes[n].parent = NoNode /\ nodes[n].action = NoAction
                  ELSE /\ nodes[n].parent \in 1..(n - 1)
                       /\ Attached(nodes, n)
                       /\ Root \in PathToRoot(nodes, n))
    /\ [][HasTree =>
            \A n \in 1..Len(nodes) :
               /\ Len(nodes'[n].children) >= Len(nodes[n].children)
               /\ \A j \in 1..Len(nodes[n].children) :
                     nodes'[n].children[j] = nodes[n].children[j]
               /\ nodes'[n].parent = nodes[n].parent
               /\ nodes'[n].action = nodes[n].action
               /\ Len(nodes'[n].children) > Len(nodes[n].children) =>
                     /\ pc = "select" /\ pc' = "rollout" /\ n = cur
                     /\ Len(nodes'[n].children) = Len(nodes[n].children) + 1
                     /\ LET e == nodes'[n].children[Len(nodes'[n].children)]
                        IN /\ e.action \in Unexplored
                           /\ e.child = Len(nodes')
                           /\ lastStep'.origin = e.action.origin]_vars

C14_Witness ==
    /\ HasTree
    /\ Len(nodes) = 4
    /\ Len(RootChildren) = 2
    /\ \E k \in 1..Len(nodes) :
          /\ nodes[k].parent \notin {NoNode, Root}
          /\ nodes[k].action.origin # nodes[nodes[k].parent].action.origin

\* a step of select that descends into a child
Descends == pc = "select" /\ pc' = "select" /\ cur' # cur

\* C15: select descends only when no legal action is unexplored, and then
\* into a child whose key is legal in the working state and whose UCB score
\* is maximal among the children with legal keys.
C15_DescendsIntoBestLegalChild ==
    [][Descends =>
         /\ Unexplored = {}
         /\ \E j \in 1..Len(nodes[cur].children) :
               LET e == nodes[cur].children[j]
               IN /\ e.child = cur'
                  /\ e.key \in Work.acts
                  /\ lastStep'.legal
                  /\ \A k \in 1..Len(nodes[cur].children) :
                        nodes[cur].children[k].key \in Work.acts =>
                           ucb_score(nodes[nodes[cur].children[k].child], nodes[cur].visits)
                              <= ucb_score(nodes[e.child], nodes[cur].visits)]_vars

C15_Witness ==
    /\ pc = "select"
    /\ lastStep.it = i + 1
    /\ Len(RootChildren) = 2
    /\ cur = RootChildren[2].child
    /\ \E S \in SUBSET Keys : rootSeen = {S} /\ Cardinality(S) = 2
    /\ ucb_score(nodes[RootChildren[1].child], nodes[Root].visits)
          < ucb_score(nodes[cur], nodes[Root].visits)

\* C16: every state.step call passes an action object that the working state
\* itself has just handed out: it comes from that state, not from the tree,
\* and its key is legal there.
C16_StepsOwnLegalAction ==
    lastStep # NoStep =>
        /\ lastStep.origin = lastStep.target
        /\ lastStep.legal
        /\ lastStep.target = WorkId(i + 1)

C16_Witness ==
    /\ pc = "select"
    /\ cur # Root
    /\ lastStep # NoStep
    /\ lastStep.origin = lastStep.target
    /\ nodes[cur].action.origin # lastStep.target
    /\ nodes[cur].action.key \in Keys

\* C17: state.step is never called on a working state whose ended() is true.
C17_NeverStepsEndedState ==
    lastStep # NoStep => ~lastStep.ended

\* select is about to evaluate ucb_score on the children with legal keys
EvaluatesUCB ==
    /\ pc = "select"
    /\ Actions # {}
    /\ Unexplored = {}
    /\ nodes[cur].children # <<>>

\* C18: whenever select evaluates ucb_score on a child, 1 <= child visits <=
\* parent visits, so the logarithm and the square root are defined and the
\* infinity branch is not taken; every node below the root has been
\* backpropagated through, except the one whose rollout is still running.
C18_UcbArgumentsDefined ==
    /\ EvaluatesUCB =>
          LET cands == Candidates(nodes[cur], Actions)
          IN \A j \in 1..Len(cands) :
                /\ nodes[cands[j].child].visits >= 1
                /\ nodes[cur].visits >= nodes[cands[j].child].visits
                /\ LnMilli(nodes[cur].visits) >= 0
                /\ ucb_score(nodes[cands[j].child], nodes[cur].visits) < Infinity
    /\ HasTree =>
          \A k \in 2..Len(nodes) :
             \/ (pc = "rollout" /\ k = cur /\ nodes[k].visits = 0)
             \/ (nodes[k].visits >= 1 /\ nodes[nodes[k].parent].visits >= nodes[k].visits)

C18_Witness ==
    /\ EvaluatesUCB
    /\ cur = Root
    /\ Len(Candidates(nodes[cur], Actions)) = 2
    /\ nodes[Root].visits = 2
    /\ nodes[RootChildren[1].child].visits = 1
    /\ nodes[RootChildren[2].child].total_reward > 0

\* C19: in select, a non-empty action list without unexplored actions means
\* the node has a child with a legal key, so the maximisation has something
\* to choose from; select ends an iteration as a leaf only when the action
\* list is empty.
C19_MaxNeverEmpty ==
    /\ [](pc = "select" /\ Actions # {} /\ Unexplored = {} =>
             /\ nodes[cur].children # <<>>
             /\ Candidates(nodes[cur], Actions) # <<>>)
    /\ [][(pc = "select" /\ pc' = "loop") => Actions = {}]_vars

C19_Witness ==
    /\ pc = "select"
    /\ Actions # {}
    /\ Unexplored = {}
    /\ Len(nodes[cur].children) >= 2
    /\ \E j \in 1..Len(nodes[cur].children) :
          nodes[cur].children[j].key \notin Work.acts
====
